---- MODULE Spec2Model ----
(***************************************************************************)
(* A model of the Jalali calendar package for ERPNext:                     *)
(*   jalali_calendar/api/converter.py    Gregorian <-> Jalali conversion   *)
(*   jalali_calendar/api/preferences.py  calendar preference resolver      *)
(*   jalali_calendar/boot.py             session bootstrap hook            *)
(*                                                                         *)
(* Python values are records tagged by "kind".  A raised exception is the  *)
(* value returned by the operator that models the raising function, and    *)
(* every caller propagates it as the code does (no handler catches one).   *)
(* Python's // and % with a positive divisor are floor division and the    *)
(* non-negative remainder, which is what \div and % are here.              *)
(***************************************************************************)
EXTENDS Integers, Sequences, FiniteSets, TLC

VARIABLES
    value,      \* converter: the caller's input value
    mid,        \* converter: what the first call returned (or raised)
    back,       \* converter: what the second call, on mid, returned
    calls,      \* converter: the functions called so far, in order (at most 2)
    _FALLBACK_STORE,  \* preferences: the in-memory store (frappe is absent)
    lastCall,   \* preferences: the last finished call, its arguments and result
    lastSet,    \* history: the calendar argument of the last successful set, per slot
    ctx,        \* a get_preference_context call in progress, between its store reads
    interleaved,\* history: a set call wrote a slot that call reads, between its reads
    bootinfo    \* the bootstrap payload handed to boot_session

convVars == <<value, mid, back, calls>>
prefVars == <<_FALLBACK_STORE, lastCall, lastSet, ctx, interleaved, bootinfo>>
vars == <<value, mid, back, calls,
          _FALLBACK_STORE, lastCall, lastSet, ctx, interleaved, bootinfo>>

(***************************************************************************)
(* Bounds of the model.                                                    *)
(***************************************************************************)
GMinYear == 1800
GMaxYear == 2200
JMinYear == 1179
JMaxYear == 1578

(***************************************************************************)
(* Python values.                                                          *)
(***************************************************************************)
NoValue == [kind |-> "unset"]
None == [kind |-> "None"]
Str(s) == [kind |-> "str", chars |-> s]
PyInt(n) == [kind |-> "int", v |-> n]
PyBool(b) == [kind |-> "bool", v |-> b]
PyTuple(y, m, d) == [kind |-> "tuple", year |-> y, month |-> m, day |-> d]
ValueError(m) == [kind |-> "ValueError", msg |-> m]
TypeError(m) == [kind |-> "TypeError", msg |-> m]
IndexError(m) == [kind |-> "IndexError", msg |-> m]
IsError(v) == v.kind \in {"ValueError", "TypeError", "IndexError", "RuntimeError"}

_GREGORIAN_MONTH_LENGTHS == <<31, 28, 31, 30, 31, 30, 31, 31, 30, 31, 30, 31>>
_JALALI_MONTH_LENGTHS == <<31, 31, 31, 31, 31, 31, 30, 30, 30, 30, 30, 29>>

_is_gregorian_leap(year) ==
    year % 4 = 0 /\ (year % 100 # 0 \/ year % 400 = 0)

(***************************************************************************)
(* datetime.date of the standard library, as the converter uses it: the    *)
(* constructor (which rejects what is not a date), the ordering, and the   *)
(* difference in days.                                                     *)
(***************************************************************************)
DaysInGregorianMonth(year, month) ==
    IF month = 2 /\ _is_gregorian_leap(year)
    THEN 29
    ELSE _GREGORIAN_MONTH_LENGTHS[month]

date(year, month, day) ==
    IF ~(1 <= year /\ year <= 9999)
    THEN ValueError("year is out of range")
    ELSE IF ~(1 <= month /\ month <= 12)
    THEN ValueError("month must be in 1..12")
    ELSE IF ~(1 <= day /\ day <= DaysInGregorianMonth(year, month))
    THEN ValueError("day is out of range for month")
    ELSE [kind |-> "date", year |-> year, month |-> month, day |-> day]

RECURSIVE DaysBeforeMonth(_, _)
DaysBeforeMonth(year, month) ==
    IF month <= 1
    THEN 0
    ELSE DaysBeforeMonth(year, month - 1) + DaysInGregorianMonth(year, month - 1)

toordinal(d) ==
    LET y == d.year - 1
    IN  y * 365 + y \div 4 - y \div 100 + y \div 400
        + DaysBeforeMonth(d.year, d.month) + d.day

DaysBetween(later, earlier) == toordinal(later) - toordinal(earlier)

DateLess(a, b) ==
    \/ a.year < b.year
    \/ a.year = b.year /\ a.month < b.month
    \/ a.year = b.year /\ a.month = b.month /\ a.day < b.day

(***************************************************************************)
(* Strings are sequences of one-character strings.                         *)
(***************************************************************************)
Digits == <<"0", "1", "2", "3", "4", "5", "6", "7", "8", "9">>

IsDigit(c) == \E i \in 1..10 : Digits[i] = c

DigitValue(c) == (CHOOSE i \in 1..10 : Digits[i] = c) - 1

\* value.replace("/", "-")
ReplaceSlash(s) == [i \in 1..Len(s) |-> IF s[i] = "/" THEN "-" ELSE s[i]]

\* s.split("-")
RECURSIVE SplitDash(_, _, _)
SplitDash(s, i, token) ==
    IF i > Len(s)
    THEN <<token>>
    ELSE IF s[i] = "-"
    THEN <<token>> \o SplitDash(s, i + 1, <<>>)
    ELSE SplitDash(s, i + 1, Append(token, s[i]))

\* int(part) on a token of decimal digits; anything else raises ValueError
RECURSIVE DecimalValue(_, _)
DecimalValue(token, n) ==
    IF n = 0 THEN 0 ELSE 10 * DecimalValue(token, n - 1) + DigitValue(token[n])

IsDecimal(token) == token # <<>> /\ \A i \in 1..Len(token) : IsDigit(token[i])

ParseTriple(s, what) ==
    LET tokens == SplitDash(ReplaceSlash(s), 1, <<>>)
    IN  IF Len(tokens) # 3
        THEN ValueError(what)
        ELSE IF \E i \in 1..3 : ~IsDecimal(tokens[i])
        THEN ValueError("invalid literal for int()")
        ELSE PyTuple(DecimalValue(tokens[1], Len(tokens[1])),
                     DecimalValue(tokens[2], Len(tokens[2])),
                     DecimalValue(tokens[3], Len(tokens[3])))

coerce_gregorian(v) ==
    IF v.kind = "date"
    THEN PyTuple(v.year, v.month, v.day)
    ELSE IF v.kind = "str"
    THEN ParseTriple(v.chars, "Unsupported Gregorian date string")
    ELSE IF v.kind = "tuple"
    THEN PyTuple(v.year, v.month, v.day)
    ELSE TypeError("Expected a date, string, or iterable of three integers")

coerce_jalali(v) ==
    IF v.kind = "JalaliDate"
    THEN PyTuple(v.year, v.month, v.day)
    ELSE IF v.kind = "str"
    THEN ParseTriple(v.chars, "Unsupported Jalali date string")
    ELSE IF v.kind = "tuple"
    THEN PyTuple(v.year, v.month, v.day)
    ELSE TypeError("Expected a JalaliDate, string, or iterable of three integers")

(***************************************************************************)
(* jalali_to_gregorian, in the three parts of its body.                    *)
(***************************************************************************)
\* the sum the loop "for i in range(jm)" adds; jm is zero-based and at most 12
RECURSIVE JalaliDaysBeforeMonth(_)
JalaliDaysBeforeMonth(jm) ==
    IF jm <= 0
    THEN 0
    ELSE JalaliDaysBeforeMonth(jm - 1) + _JALALI_MONTH_LENGTHS[jm]

\* GDayNo with the epoch offset off by one
GDayNo_offset(t) ==
    LET jy == t.year - 979
        jm == t.month - 1
        jd == t.day - 1
    IN  365 * jy + (jy \div 33) * 8 + ((jy % 33) + 3) \div 4
        + JalaliDaysBeforeMonth(jm) + jd + 80

\* g_day_no of a coerced triple (lines 117-126)
GDayNo(t) ==
    LET jy == t.year - 979
        jm == t.month - 1
        jd == t.day - 1
    IN  365 * jy + (jy \div 33) * 8 + ((jy % 33) + 3) \div 4
        + JalaliDaysBeforeMonth(jm) + jd + 79

\* GregorianCycles with "> 366" for ">= 366" in the one-year step
GregorianCycles_strict(g_day_no) ==
    LET gy0 == 1600 + 400 * (g_day_no \div 146097)
        d0 == g_day_no % 146097
        century == d0 >= 36525
        c1 == d0 - 1
        gy1 == IF century THEN gy0 + 100 * (c1 \div 36524) ELSE gy0
        c2 == c1 % 36524
        d1 == IF century THEN (IF c2 >= 365 THEN c2 + 1 ELSE c2) ELSE d0
        leap1 == ~(century /\ c2 < 365)
        gy2 == gy1 + 4 * (d1 \div 1461)
        d2 == d1 % 1461
        single == d2 > 366
        d3 == d2 - 1
    IN  [gy |-> IF single THEN gy2 + d3 \div 365 ELSE gy2,
         g_day_no |-> IF single THEN d3 % 365 ELSE d2,
         leap |-> IF single THEN FALSE ELSE leap1]

\* the 400/100/4/1-year cycle decomposition (lines 128-148)
GregorianCycles(g_day_no) ==
    LET gy0 == 1600 + 400 * (g_day_no \div 146097)
        d0 == g_day_no % 146097
        century == d0 >= 36525
        c1 == d0 - 1
        gy1 == IF century THEN gy0 + 100 * (c1 \div 36524) ELSE gy0
        c2 == c1 % 36524
        d1 == IF century THEN (IF c2 >= 365 THEN c2 + 1 ELSE c2) ELSE d0
        leap1 == ~(century /\ c2 < 365)
        gy2 == gy1 + 4 * (d1 \div 1461)
        d2 == d1 % 1461
        single == d2 >= 366
        d3 == d2 - 1
    IN  [gy |-> IF single THEN gy2 + d3 \div 365 ELSE gy2,
         g_day_no |-> IF single THEN d3 % 365 ELSE d2,
         leap |-> IF single THEN FALSE ELSE leap1]

\* the walk over _GREGORIAN_MONTH_LENGTHS, from index i (zero-based)
RECURSIVE MonthWalk(_, _, _, _)
MonthWalk(gy, i, g_day_no, leap) ==
    IF i >= 12
    THEN ValueError("Failed to convert Jalali date to Gregorian")
    ELSE LET month_length == _GREGORIAN_MONTH_LENGTHS[i + 1]
                             + (IF i = 1 /\ leap THEN 1 ELSE 0)
         IN  IF g_day_no < month_length
             THEN date(gy, i + 1, g_day_no + 1)
             ELSE MonthWalk(gy, i + 1, g_day_no - month_length, leap)

jalali_to_gregorian(v) ==
    LET t == coerce_jalali(v)
    IN  IF IsError(t)
        THEN t
        ELSE IF t.month - 1 > 12
        THEN IndexError("list index out of range")
        ELSE LET c == GregorianCycles(GDayNo(t))
             IN  MonthWalk(c.gy, 0, c.g_day_no, c.leap)

is_jalali_leap(year) ==
    LET start == jalali_to_gregorian(PyTuple(year, 1, 1))
        next_start == jalali_to_gregorian(PyTuple(year + 1, 1, 1))
    IN  IF IsError(start)
        THEN start
        ELSE IF IsError(next_start)
        THEN next_start
        ELSE PyBool(DaysBetween(next_start, start) = 366)

\* _jalali_month_length with the two lengths of month 12 exchanged
_jalali_month_length_swapped(year, month) ==
    IF month <= 6
    THEN PyInt(31)
    ELSE IF month <= 11
    THEN PyInt(30)
    ELSE LET leap == is_jalali_leap(year)
         IN  IF IsError(leap) THEN leap ELSE PyInt(IF leap.v THEN 29 ELSE 30)

\* an exception of is_jalali_leap passes through
_jalali_month_length(year, month) ==
    IF month <= 6
    THEN PyInt(31)
    ELSE IF month <= 11
    THEN PyInt(30)
    ELSE LET leap == is_jalali_leap(year)
         IN  IF IsError(leap) THEN leap ELSE PyInt(IF leap.v THEN 30 ELSE 29)

\* the dataclass constructor with __post_init__
JalaliDate(year, month, day) ==
    IF ~(1 <= month /\ month <= 12)
    THEN ValueError("month must be in 1..12 for Jalali calendar")
    ELSE LET max_day == _jalali_month_length(year, month)
         IN  IF IsError(max_day)
             THEN max_day
             ELSE IF ~(1 <= day /\ day <= max_day.v)
             THEN ValueError("day must be in 1..max_day for month")
             ELSE [kind |-> "JalaliDate", year |-> year, month |-> month, day |-> day]

\* CandidateYear with the offset off by one
CandidateYear_shifted(gy) == gy - 622

\* the candidate Jalali year (line 97)
CandidateYear(gy) == gy - 621

\* month and day of the days-th day (from 0) of Jalali year jy (lines 104-112)
\* MonthAndDay with 30 days for each of the first six months
MonthAndDay_thirty(jy, days) ==
    IF days < 186
    THEN JalaliDate(jy, 1 + (days \div 30), 1 + (days % 30))
    ELSE JalaliDate(jy, 7 + ((days - 186) \div 30), 1 + ((days - 186) % 30))

MonthAndDay(jy, days) ==
    IF days < 186
    THEN JalaliDate(jy, 1 + (days \div 31), 1 + (days % 31))
    ELSE JalaliDate(jy, 7 + ((days - 186) \div 30), 1 + ((days - 186) % 30))

gregorian_to_jalali(v) ==
    LET t == coerce_gregorian(v)
    IN  IF IsError(t)
        THEN t
        ELSE
        LET target == date(t.year, t.month, t.day)
            jy0 == CandidateYear(t.year)
            start0 == jalali_to_gregorian(PyTuple(jy0, 1, 1))
        IN  IF IsError(target)
            THEN target
            ELSE IF IsError(start0)
            THEN start0
            ELSE
            LET early == DateLess(target, start0)
                jy == IF early THEN jy0 - 1 ELSE jy0
                start_of_year == IF early
                                 THEN jalali_to_gregorian(PyTuple(jy, 1, 1))
                                 ELSE start0
            IN  IF IsError(start_of_year)
                THEN start_of_year
                ELSE MonthAndDay(jy, DaysBetween(target, start_of_year))

(***************************************************************************)
(* Converter calls.  A caller makes a call on its input, and may hand the  *)
(* result to a second call.  A call that raised ends the chain.            *)
(***************************************************************************)
Current == IF calls = <<>> THEN value ELSE mid

Return(fn, result) ==
    /\ Len(calls) < 2
    /\ calls' = Append(calls, fn)
    /\ IF calls = <<>>
       THEN mid' = result /\ back' = back
       ELSE back' = result /\ mid' = mid
    /\ value' = value
    /\ UNCHANGED prefVars

GregorianToJalali ==
    /\ Current.kind \in {"date", "tuple", "str", "None"}
    /\ Return("gregorian_to_jalali", gregorian_to_jalali(Current))

JalaliToGregorian ==
    /\ Current.kind \in {"JalaliDate", "tuple", "str", "None"}
    /\ Return("jalali_to_gregorian", jalali_to_gregorian(Current))

\* JalaliDate(*triple)
Construct ==
    /\ Current.kind = "tuple"
    /\ Return("JalaliDate", JalaliDate(Current.year, Current.month, Current.day))

IsJalaliLeap ==
    /\ Current.kind = "int"
    /\ Return("is_jalali_leap", is_jalali_leap(Current.v))

Next == GregorianToJalali \/ JalaliToGregorian \/ Construct \/ IsJalaliLeap

(***************************************************************************)
(* preferences.py, on the in-memory store: frappe is absent, so every      *)
(* "if frappe:" branch is skipped.  A dictionary holds None for a key it   *)
(* does not hold, as dict.get returns it.                                  *)
(***************************************************************************)
\* user identifiers are distinct strings; n stands for the n-th of them
NumUsers == 2
UserId(n) == [kind |-> "str", id |-> n]
Users == {UserId(n) : n \in 1..NumUsers}

jalali == Str(<<"j", "a", "l", "a", "l", "i">>)
gregorian == Str(<<"g", "r", "e", "g", "o", "r", "i", "a", "n">>)
DEFAULT_CALENDAR == jalali
VALID_CALENDARS == {jalali, gregorian}

\* bool(v) of an Optional[str]
Truthy(v) == v.kind = "str" /\ v.chars # <<>>

UpperCase == <<"A", "B", "C", "D", "E", "F", "G", "H", "I", "J", "K", "L", "M",
               "N", "O", "P", "Q", "R", "S", "T", "U", "V", "W", "X", "Y", "Z">>
LowerCase == <<"a", "b", "c", "d", "e", "f", "g", "h", "i", "j", "k", "l", "m",
               "n", "o", "p", "q", "r", "s", "t", "u", "v", "w", "x", "y", "z">>
Whitespace == {" ", "\t", "\n"}

\* str.lower()
lower(s) ==
    [i \in 1..Len(s) |->
        IF \E k \in 1..26 : UpperCase[k] = s[i]
        THEN LowerCase[CHOOSE k \in 1..26 : UpperCase[k] = s[i]]
        ELSE s[i]]

\* str.strip()
strip(s) ==
    LET inner == {i \in 1..Len(s) : s[i] \notin Whitespace}
    IN  IF inner = {}
        THEN <<>>
        ELSE LET first == CHOOSE i \in inner : \A j \in inner : i <= j
                 last == CHOOSE i \in inner : \A j \in inner : j <= i
             IN  SubSeq(s, first, last)

_normalize_calendar(v) ==
    IF v.kind = "None"
    THEN None
    ELSE IF v.kind = "str"
    THEN LET normalized == Str(lower(strip(v.chars)))
         IN  IF normalized \in VALID_CALENDARS THEN normalized ELSE None
    ELSE None

_require_calendar(v) ==
    LET normalized == _normalize_calendar(v)
    IN  IF ~Truthy(normalized)
        THEN ValueError("calendar must be one of: gregorian, jalali")
        ELSE normalized

_read_system_value(store) == store.system

_write_system_value(store, calendar) ==
    [kind |-> "ok", store |-> [store EXCEPT !.system = calendar]]

_read_user_value(store, user) ==
    IF user = None THEN None ELSE store.user[user]

_write_user_value(store, calendar, user) ==
    IF user = None
    THEN [kind |-> "RuntimeError",
          msg |-> "user must be provided when frappe is unavailable"]
    ELSE [kind |-> "ok", store |-> [store EXCEPT !.user[user] = calendar]]

get_system_calendar(store, raw) ==
    LET stored == _read_system_value(store)
    IN  IF Truthy(stored)
        THEN stored
        ELSE IF raw THEN Str(<<>>) ELSE DEFAULT_CALENDAR

get_user_calendar(store, user) == _read_user_value(store, user)

CalendarSelection(v, source) ==
    [kind |-> "CalendarSelection", value |-> v, source |-> source]

\* resolve_calendar that looks at the system value first
resolve_calendar_system_first(store, user) ==
    LET user_value == get_user_calendar(store, user)
        system_raw == get_system_calendar(store, TRUE)
    IN  IF Truthy(system_raw)
        THEN CalendarSelection(system_raw, "system")
        ELSE IF Truthy(user_value)
        THEN CalendarSelection(user_value, "user")
        ELSE CalendarSelection(DEFAULT_CALENDAR, "default")

resolve_calendar(store, user) ==
    LET user_value == get_user_calendar(store, user)
        system_raw == get_system_calendar(store, TRUE)
    IN  IF Truthy(user_value)
        THEN CalendarSelection(user_value, "user")
        ELSE IF Truthy(system_raw)
        THEN CalendarSelection(system_raw, "system")
        ELSE CalendarSelection(DEFAULT_CALENDAR, "default")

is_jalali_enabled(store, user) == resolve_calendar(store, user).value = jalali

\* set_system_calendar that writes its argument before it validates it
set_system_calendar_write_first(store, calendar) ==
    LET written == _write_system_value(store, calendar).store
        selected == _require_calendar(calendar)
    IN  IF IsError(selected)
        THEN [store |-> written, ret |-> selected]
        ELSE [store |-> written, ret |-> resolve_calendar(written, None)]

\* [store after the call, ret]: a raise leaves the store as it was at the raise
set_system_calendar(store, calendar) ==
    LET selected == _require_calendar(calendar)
    IN  IF IsError(selected)
        THEN [store |-> store, ret |-> selected]
        ELSE LET written == _write_system_value(store, selected).store
             IN  [store |-> written, ret |-> resolve_calendar(written, None)]

set_user_calendar(store, calendar, user) ==
    LET selected == _require_calendar(calendar)
    IN  IF IsError(selected)
        THEN [store |-> store, ret |-> selected]
        ELSE LET written == _write_user_value(store, selected, user)
             IN  IF IsError(written)
                 THEN [store |-> store, ret |-> written]
                 ELSE [store |-> written.store,
                       ret |-> resolve_calendar(written.store, user)]

(***************************************************************************)
(* get_preference_context reads the store up to four times: the user and   *)
(* the system value in resolve_calendar, then the system and the user      *)
(* value again.  ContextStep is the code from one read to the next.        *)
(***************************************************************************)
Absent == [kind |-> "absent"]

IdleContext ==
    [pc |-> "idle", user |-> None,
     context |-> [kind |-> "dict", active_calendar |-> Absent, source |-> "",
                  is_jalali_enabled |-> FALSE,
                  system_calendar |-> Absent, user_calendar |-> Absent]]

StartContext(user) == [IdleContext EXCEPT !.pc = "resolve_user", !.user = user]

\* Resolved that reports the default calendar for the resolved one
Resolved_default(c, resolved) ==
    [c EXCEPT !.pc = "system_raw",
              !.context.active_calendar = DEFAULT_CALENDAR,
              !.context.source = resolved.source,
              !.context.is_jalali_enabled = (resolved.value = jalali)]

\* the context dict as built from the resolved selection (lines 165-170)
Resolved(c, resolved) ==
    [c EXCEPT !.pc = "system_raw",
              !.context.active_calendar = resolved.value,
              !.context.source = resolved.source,
              !.context.is_jalali_enabled = (resolved.value = jalali)]

ContextStep(c, store) ==
    IF c.pc = "resolve_user"
    THEN LET user_value == get_user_calendar(store, c.user)
         IN  IF Truthy(user_value)
             THEN Resolved(c, CalendarSelection(user_value, "user"))
             ELSE [c EXCEPT !.pc = "resolve_system"]
    ELSE IF c.pc = "resolve_system"
    THEN LET system_raw == get_system_calendar(store, TRUE)
         IN  IF Truthy(system_raw)
             THEN Resolved(c, CalendarSelection(system_raw, "system"))
             ELSE Resolved(c, CalendarSelection(DEFAULT_CALENDAR, "default"))
    ELSE IF c.pc = "system_raw"
    THEN LET system_raw == get_system_calendar(store, TRUE)
         IN  [c EXCEPT !.pc = "user_raw",
                       !.context.system_calendar =
                           IF Truthy(system_raw) THEN system_raw ELSE Absent]
    ELSE IF c.pc = "user_raw"
    THEN LET user_raw == get_user_calendar(store, c.user)
         IN  [c EXCEPT !.pc = "done",
                       !.context.user_calendar =
                           IF Truthy(user_raw) THEN user_raw ELSE Absent]
    ELSE c

\* the whole call on one store, with nothing in between
RECURSIVE RunContext(_, _)
RunContext(c, store) ==
    IF c.pc = "done" THEN c.context ELSE RunContext(ContextStep(c, store), store)

get_preference_context(store, user) == RunContext(StartContext(user), store)

(***************************************************************************)
(* boot.py.  A payload is a dict or an object with attributes; either way  *)
(* it maps names to values, Absent for a name it does not hold.            *)
(***************************************************************************)
BootKeys == {"jalali_calendar", "user"}

boot_session(payload, store) ==
    LET context == get_preference_context(store, None)
    IN  IF payload.kind = "dict"
        THEN IF payload.entries["jalali_calendar"] = Absent
             THEN [payload EXCEPT !.entries["jalali_calendar"] = context]
             ELSE payload
        ELSE [payload EXCEPT !.entries["jalali_calendar"] = context]

(***************************************************************************)
(* Preference calls.                                                       *)
(***************************************************************************)
CalendarInputs ==
    { jalali, gregorian,
      Str(<<" ", "J", "a", "l", "a", "l", "i", "\n">>),
      Str(<<"l", "u", "n", "a", "r">>),
      Str(<<" ">>),
      None,
      PyInt(42) }

Reading == {"resolve_system", "system_raw", "user_raw"}

Call(fn, calendar, user, ret) ==
    [fn |-> fn, calendar |-> calendar, user |-> user, ret |-> ret]

\* observed: the call is the observed caller's, whose arguments and result
\* are kept; the calls of other callers only act on the store
SetSystemCalendar(calendar, observed) ==
    LET r == set_system_calendar(_FALLBACK_STORE, calendar)
    IN  /\ _FALLBACK_STORE' = r.store
        /\ IF observed
           THEN /\ lastCall' = Call("set_system_calendar", calendar, None, r.ret)
                /\ lastSet' = IF IsError(r.ret) THEN lastSet
                              ELSE [lastSet EXCEPT !.system = calendar]
           ELSE UNCHANGED <<lastCall, lastSet>>
        /\ interleaved' = (interleaved \/ (ctx.pc \in Reading /\ ~IsError(r.ret)))
        /\ UNCHANGED <<ctx, bootinfo>>
        /\ UNCHANGED convVars

SetUserCalendar(calendar, user, observed) ==
    LET r == set_user_calendar(_FALLBACK_STORE, calendar, user)
    IN  /\ _FALLBACK_STORE' = r.store
        /\ IF observed
           THEN /\ lastCall' = Call("set_user_calendar", calendar, user, r.ret)
                /\ lastSet' = IF IsError(r.ret) THEN lastSet
                              ELSE [lastSet EXCEPT !.user[user] = calendar]
           ELSE UNCHANGED <<lastCall, lastSet>>
        /\ interleaved' = (interleaved
                           \/ (ctx.pc \in Reading /\ ~IsError(r.ret) /\ user = ctx.user))
        /\ UNCHANGED <<ctx, bootinfo>>
        /\ UNCHANGED convVars

ResolveCalendar(user) ==
    /\ lastCall' = Call("resolve_calendar", None, user,
                        resolve_calendar(_FALLBACK_STORE, user))
    /\ UNCHANGED <<_FALLBACK_STORE, lastSet, ctx, interleaved, bootinfo>>
    /\ UNCHANGED convVars

\* the call, up to and with its first read of the store
GetPreferenceContext(user) ==
    /\ ctx.pc = "idle"
    /\ ctx' = ContextStep(StartContext(user), _FALLBACK_STORE)
    /\ interleaved' = FALSE
    /\ UNCHANGED <<_FALLBACK_STORE, lastCall, lastSet, bootinfo>>
    /\ UNCHANGED convVars

\* the call goes on to its next read
ContextRead ==
    /\ ctx.pc \in Reading
    /\ ctx' = ContextStep(ctx, _FALLBACK_STORE)
    /\ UNCHANGED <<_FALLBACK_STORE, lastCall, lastSet, interleaved, bootinfo>>
    /\ UNCHANGED convVars

\* the caller takes the returned context
ContextReturn ==
    /\ ctx.pc = "done"
    /\ ctx' = IdleContext
    /\ interleaved' = FALSE
    /\ UNCHANGED <<_FALLBACK_STORE, lastCall, lastSet, bootinfo>>
    /\ UNCHANGED convVars

BootSession ==
    /\ bootinfo' = boot_session(bootinfo, _FALLBACK_STORE)
    /\ UNCHANGED <<_FALLBACK_STORE, lastCall, lastSet, ctx, interleaved>>
    /\ UNCHANGED convVars

Payload(kind, present, user) ==
    [kind |-> kind,
     entries |-> [k \in BootKeys |-> IF k = "jalali_calendar" THEN present ELSE user]]

Payloads ==
    {Payload(kind, present, user) :
        kind \in {"dict", "object"},
        present \in {Absent, Str(<<"k", "e", "p", "t">>)},
        user \in {Absent, Str(<<"A", "d", "m", "i", "n">>)}}

InitPreferences ==
    /\ _FALLBACK_STORE = [system |-> None, user |-> [u \in Users |-> None]]
    /\ lastCall = Call("", None, None, None)
    /\ lastSet = [system |-> None, user |-> [u \in Users |-> None]]
    /\ ctx = IdleContext
    /\ interleaved = FALSE
    /\ bootinfo = Payload("dict", Absent, Absent)

InitConverter ==
    /\ value = NoValue
    /\ mid = NoValue
    /\ back = NoValue
    /\ calls = <<>>

Setters(observed) ==
    \/ \E calendar \in CalendarInputs : SetSystemCalendar(calendar, observed)
    \/ \E calendar \in CalendarInputs, user \in Users \cup {None} :
          SetUserCalendar(calendar, user, observed)

\* one caller sets and resolves
NextPref ==
    \/ Setters(TRUE)
    \/ \E user \in Users \cup {None} : ResolveCalendar(user)

InitPref == InitConverter /\ InitPreferences

SpecPref == InitPref /\ [][NextPref]_vars

\* one caller asks for the context while others set
NextCtx ==
    \/ Setters(FALSE)
    \/ \E user \in Users \cup {None} : GetPreferenceContext(user)
    \/ ContextRead
    \/ ContextReturn

InitCtx == InitConverter /\ InitPreferences

SpecCtx == InitCtx /\ [][NextCtx]_vars

\* sessions boot, on any payload, while callers set
InitBoot ==
    /\ InitConverter
    /\ _FALLBACK_STORE = [system |-> None, user |-> [u \in Users |-> None]]
    /\ lastCall = Call("", None, None, None)
    /\ lastSet = [system |-> None, user |-> [u \in Users |-> None]]
    /\ ctx = IdleContext
    /\ interleaved = FALSE
    /\ bootinfo \in Payloads

NextBoot == Setters(FALSE) \/ BootSession

SpecBoot == InitBoot /\ [][NextBoot]_vars

(***************************************************************************)
(* Inputs.  SampleInputs are the values of the test suite, in each of the  *)
(* accepted shapes, and values the coercion or the arithmetic rejects.     *)
(***************************************************************************)
SampleInputs ==
    { date(2024, 3, 20),
      Str(<<"2", "0", "2", "3", "-", "0", "3", "-", "2", "1">>),
      Str(<<"2", "0", "2", "4", "/", "0", "3", "/", "2", "0">>),
      PyTuple(2017, 1, 1),
      PyTuple(1403, 1, 1),
      Str(<<"1", "4", "0", "2", "-", "0", "1", "-", "0", "1">>),
      Str(<<"1", "4", "0", "3", "/", "0", "1", "/", "0", "1">>),
      PyTuple(1395, 10, 12),
      PyTuple(1402, 12, 29),
      Str(<<"1", "4", "0", "0", "-", "1", "2", "-", "3", "0">>),
      Str(<<"1", "4", "0", "0", "-", "0", "7", "-", "3", "1">>),
      Str(<<"2", "0", "2", "4", "-", "0", "3">>),
      Str(<<"2", "0", "2", "4", "-", "x", "3", "-", "0", "1">>),
      Str(<<"2", "0", "2", "4", "-", "-", "3", "-", "0", "1">>),
      PyTuple(2023, 2, 29),
      PyTuple(1400, 14, 1),
      None,
      PyInt(1399), PyInt(1400), PyInt(1403) }

InitCalls ==
    /\ mid = NoValue
    /\ back = NoValue
    /\ calls = <<>>
    /\ InitPreferences

InitG2J ==
    /\ \/ \E y \in GMinYear..GMaxYear, m \in 1..12 :
            \E d \in 1..DaysInGregorianMonth(y, m) : value = date(y, m, d)
       \/ value \in SampleInputs
    /\ InitCalls

SpecG2J == InitG2J /\ [][Next]_vars

\* Jalali years around the epoch shift of 979 (g_day_no changes sign in 978)
\* and around Gregorian year 1 (Jalali -620), besides the main range
InitJ2G ==
    /\ \/ \E y \in JMinYear..JMaxYear : \E m \in 0..13 : \E d \in 0..32 :
            value = PyTuple(y, m, d)
       \/ \E y \in 976..981 : \E m \in 0..13 : \E d \in 0..32 :
            value = PyTuple(y, m, d)
       \/ \E y \in -622 .. -619 : \E m \in 0..13 : \E d \in 0..32 :
            value = PyTuple(y, m, d)
       \/ \E y \in JMinYear..JMaxYear : value = PyInt(y)
       \/ value \in SampleInputs
    /\ InitCalls

SpecJ2G == InitJ2G /\ [][Next]_vars

(***************************************************************************)
(* Properties.                                                             *)
(***************************************************************************)
First(fn) == calls # <<>> /\ calls[1] = fn
Then(fn) == Len(calls) = 2 /\ calls[2] = fn
JD(y, m, d) == [kind |-> "JalaliDate", year |-> y, month |-> m, day |-> d]
InJalaliRange(y) == y \in JMinYear..JMaxYear

\* C1: every Gregorian date with a year in GMinYear..GMaxYear converts to a
\* JalaliDate that passes validation, and converting that back gives the date.
GregorianRoundTrip ==
    (/\ First("gregorian_to_jalali")
     /\ value.kind = "date"
     /\ value.year \in GMinYear..GMaxYear)
    => /\ mid.kind = "JalaliDate"
       /\ JalaliDate(mid.year, mid.month, mid.day) = mid
       /\ Then("jalali_to_gregorian") => back = value

GregorianRoundTripWitness ==
    /\ value = date(2000, 2, 29)
    /\ First("gregorian_to_jalali")
    /\ Then("jalali_to_gregorian")
    /\ mid = JD(1378, 12, 10)
    /\ back = value

\* C2: every valid Jalali triple with a year in JMinYear..JMaxYear converts to
\* a Gregorian date, and converting that back gives a JalaliDate with the
\* triple's year, month and day.
JalaliRoundTrip ==
    (/\ First("jalali_to_gregorian")
     /\ value.kind = "tuple"
     /\ InJalaliRange(value.year)
     /\ JalaliDate(value.year, value.month, value.day).kind = "JalaliDate")
    => /\ mid.kind = "date"
       /\ Then("gregorian_to_jalali") => back = JD(value.year, value.month, value.day)

\* the last day of a leap year, before the new year the candidate year is of
JalaliRoundTripWitness ==
    /\ value = PyTuple(1403, 12, 30)
    /\ First("jalali_to_gregorian")
    /\ Then("gregorian_to_jalali")
    /\ mid = date(2025, 3, 20)
    /\ back = JD(1403, 12, 30)

\* C3: the reference values of the test suite, in both directions, and the
\* leap years 1399 and 1403 and the common year 1400.
KnownValues ==
    /\ First("gregorian_to_jalali") =>
          /\ value = date(2024, 3, 20) => mid = JD(1403, 1, 1)
          /\ value = Str(<<"2", "0", "2", "3", "-", "0", "3", "-", "2", "1">>)
                => mid = JD(1402, 1, 1)
          /\ value = PyTuple(2017, 1, 1) => mid = JD(1395, 10, 12)
    /\ First("jalali_to_gregorian") =>
          /\ value = PyTuple(1403, 1, 1) => mid = date(2024, 3, 20)
          /\ value = Str(<<"1", "4", "0", "2", "-", "0", "1", "-", "0", "1">>)
                => mid = date(2023, 3, 21)
          /\ value = PyTuple(1395, 10, 12) => mid = date(2017, 1, 1)
    /\ (First("JalaliDate") /\ Then("jalali_to_gregorian")) =>
          /\ value = PyTuple(1403, 1, 1) => back = date(2024, 3, 20)
          /\ value = PyTuple(1395, 10, 12) => back = date(2017, 1, 1)
    /\ First("is_jalali_leap") =>
          /\ value = PyInt(1399) => mid = PyBool(TRUE)
          /\ value = PyInt(1400) => mid = PyBool(FALSE)
          /\ value = PyInt(1403) => mid = PyBool(TRUE)

KnownValuesWitness ==
    /\ value = PyTuple(1395, 10, 12)
    /\ First("JalaliDate")
    /\ Then("jalali_to_gregorian")
    /\ back = date(2017, 1, 1)

YearGap(y) ==
    DaysBetween(jalali_to_gregorian(PyTuple(y + 1, 1, 1)),
                jalali_to_gregorian(PyTuple(y, 1, 1)))

\* C6: for a year of the range, is_jalali_leap is true exactly when
\* JalaliDate(y, 12, 30) is accepted, and exactly when the next year starts 366
\* days after this one; otherwise JalaliDate(y, 12, 30) raises ValueError and
\* the gap is 365 days; JalaliDate(y, 12, 29) is accepted either way.
LeapConsistency ==
    /\ (First("is_jalali_leap") /\ InJalaliRange(value.v)) =>
          /\ mid.kind = "bool"
          /\ mid.v <=> JalaliDate(value.v, 12, 30) = JD(value.v, 12, 30)
          /\ ~mid.v => JalaliDate(value.v, 12, 30).kind = "ValueError"
          /\ JalaliDate(value.v, 12, 29) = JD(value.v, 12, 29)
          /\ mid.v <=> YearGap(value.v) = 366
          /\ ~mid.v => YearGap(value.v) = 365
    /\ (/\ First("JalaliDate")
        /\ InJalaliRange(value.year)
        /\ value.month = 12
        /\ value.day \in {29, 30}) =>
          /\ mid.kind \in {"JalaliDate", "ValueError"}
          /\ mid.kind = "JalaliDate"
                <=> (value.day = 29 \/ is_jalali_leap(value.year) = PyBool(TRUE))
          /\ mid.kind = "JalaliDate"
                <=> (value.day = 29 \/ YearGap(value.year) = 366)

\* day 30 of month 12 rejected in a common year
LeapConsistencyWitness ==
    /\ value = PyTuple(1400, 12, 30)
    /\ First("JalaliDate")
    /\ mid.kind = "ValueError"
    /\ YearGap(1400) = 365
    /\ YearGap(1399) = 366

\* C7: jalali_to_gregorian raises ValueError for a triple, or a string that
\* parses to one, whose month or day is not of the Jalali calendar.
InvalidJalaliRejected ==
    (/\ First("jalali_to_gregorian")
     /\ value.kind \in {"tuple", "str"}
     /\ coerce_jalali(value).kind = "tuple"
     /\ LET t == coerce_jalali(value)
        IN  JalaliDate(t.year, t.month, t.day).kind = "ValueError")
    => mid.kind = "ValueError"

\* C9: for a triple with a month in 1..12, the day number left by the cycle
\* decomposition is in 0..364, or in 0..365 when the leap flag is set, and the
\* month walk does not fall off the table.
DayOfYearInRange ==
    (/\ First("jalali_to_gregorian")
     /\ value.kind = "tuple"
     /\ value.month \in 1..12)
    => LET c == GregorianCycles(GDayNo(value))
       IN  /\ c.g_day_no \in 0..(IF c.leap THEN 365 ELSE 364)
           /\ mid # ValueError("Failed to convert Jalali date to Gregorian")

\* a year before 979, where the shifted year and the day number are negative
DayOfYearInRangeWitness ==
    /\ First("jalali_to_gregorian")
    /\ value = PyTuple(977, 12, 30)
    /\ GDayNo(value) < 0
    /\ mid = date(1599, 3, 21)

\* a calendar argument, trimmed and lower-cased
Stored(calendar) == Str(lower(strip(calendar.chars)))

ExpectedSelection(user) ==
    IF user # None /\ lastSet.user[user] # None
    THEN CalendarSelection(Stored(lastSet.user[user]), "user")
    ELSE IF lastSet.system # None
    THEN CalendarSelection(Stored(lastSet.system), "system")
    ELSE CalendarSelection(jalali, "default")

\* C4: resolve_calendar(u) returns the value last set for u, from "user", if
\* one was set; else the value last set system-wide, from "system", if one was
\* set; else "jalali", from "default".  A set for one user leaves what
\* resolve_calendar returns for every other user as it was.
ResolvePrecedence ==
    /\ [](lastCall.fn = "resolve_calendar"
            => lastCall.ret = ExpectedSelection(lastCall.user))
    /\ [][lastCall'.fn = "set_user_calendar"
            => \A other \in (Users \cup {None}) \ {lastCall'.user} :
                  resolve_calendar(_FALLBACK_STORE', other)
                      = resolve_calendar(_FALLBACK_STORE, other)]_vars

\* a user's value over a different system value, seen from that user
ResolvePrecedenceWitness ==
    /\ lastCall.fn = "resolve_calendar"
    /\ lastCall.user = UserId(1)
    /\ lastSet.system = gregorian
    /\ lastSet.user[UserId(1)] = Str(<<" ", "J", "a", "l", "a", "l", "i", "\n">>)
    /\ lastSet.user[UserId(2)] = None
    /\ lastCall.ret = CalendarSelection(jalali, "user")
    /\ resolve_calendar(_FALLBACK_STORE, UserId(2))
          = CalendarSelection(gregorian, "system")

InvalidName(calendar) ==
    \/ calendar.kind # "str"
    \/ Stored(calendar) \notin {jalali, gregorian}

\* C5: a set call whose calendar, trimmed and lower-cased, is neither "jalali"
\* nor "gregorian" (None and non-strings too) raises ValueError, and the call
\* leaves the system slot and every user slot as they were.
InvalidCalendarRejected ==
    /\ []((lastCall.fn \in {"set_system_calendar", "set_user_calendar"}
            /\ InvalidName(lastCall.calendar))
          => lastCall.ret.kind = "ValueError")
    /\ [][lastCall'.ret.kind = "ValueError"
            => /\ _FALLBACK_STORE' = _FALLBACK_STORE
               /\ \A user \in Users \cup {None} :
                     resolve_calendar(_FALLBACK_STORE', user)
                         = resolve_calendar(_FALLBACK_STORE, user)]_vars

\* a rejected name, with values in the store that the call could have lost
InvalidCalendarRejectedWitness ==
    /\ lastCall.fn = "set_system_calendar"
    /\ lastCall.calendar = Str(<<"l", "u", "n", "a", "r">>)
    /\ lastCall.ret.kind = "ValueError"
    /\ _FALLBACK_STORE.system = gregorian
    /\ _FALLBACK_STORE.user[UserId(1)] = jalali

\* C8: boot_session leaves a value the payload already holds under
\* "jalali_calendar", and every other key, as they were.
BootKeepsExisting ==
    [][\A k \in BootKeys :
          (k # "jalali_calendar" \/ bootinfo.entries[k] # Absent)
              => bootinfo'.entries[k] = bootinfo.entries[k]]_vars

Consistent(c) ==
    /\ c.user_calendar # Absent
          => c.source = "user" /\ c.active_calendar = c.user_calendar
    /\ (c.user_calendar = Absent /\ c.system_calendar # Absent)
          => c.source = "system" /\ c.active_calendar = c.system_calendar
    /\ (c.user_calendar = Absent /\ c.system_calendar = Absent)
          => c.source = "default" /\ c.active_calendar = jalali
    /\ c.is_jalali_enabled <=> c.active_calendar = jalali

\* C10 as stated: the context a call returns is consistent, whatever the set
\* calls of other callers between its reads.
ContextAlwaysConsistent == ctx.pc = "done" => Consistent(ctx.context)

\* C10, amended: the context is consistent when no set call wrote the system
\* slot or the user's slot between the call's first and last read; and
\* is_jalali_enabled goes with active_calendar in every case.
ContextConsistentUndisturbed ==
    ctx.pc = "done" =>
        /\ ~interleaved => Consistent(ctx.context)
        /\ ctx.context.is_jalali_enabled <=> ctx.context.active_calendar = jalali

\* other users' sets happened during the call, none on the slots it reads
ContextConsistentUndisturbedWitness ==
    /\ ctx.pc = "done"
    /\ ~interleaved
    /\ ctx.user = UserId(1)
    /\ ctx.context.user_calendar = gregorian
    /\ ctx.context.system_calendar = jalali
    /\ ctx.context.source = "user"
    /\ _FALLBACK_STORE.user[UserId(2)] # None
====
